---- MODULE Spec2Model ----
(***************************************************************************)
(* Model of python/github_pr_funcs.py: the resolution of a GitHub          *)
(* pull-request URL into a dokku deployment descriptor.                    *)
(*                                                                         *)
(* Strings are sequences of one-character strings, so that the three       *)
(* regular expressions of the source are matched character by character.   *)
(* A Python dict is a record; a key that may be missing, or a value that   *)
(* may be None, is a record [k, v] whose k is "missing", "null" or "str".  *)
(* An invocation is one run of get_dokku_command_elements_from_raw_pr_url  *)
(* (op = "full") or of get_repo_and_branch_from_raw_pr_url                 *)
(* (op = "reduced"), stepped statement by statement; the remote API is the *)
(* environment, which answers the one GET with any response of Responses.  *)
(***************************************************************************)
EXTENDS Integers, Sequences, FiniteSets, TLC

\* Longest pull-request number the inputs carry.
MaxDigits == 2

----------------------------------------------------------------------------
(* Characters and string helpers *)

DigitChars == {"0", "1", "2", "3", "4", "5", "6", "7", "8", "9"}

UpperChars == <<"A", "B", "C", "D", "E", "F", "G", "H", "I", "J", "K", "L", "M",
                "N", "O", "P", "Q", "R", "S", "T", "U", "V", "W", "X", "Y", "Z">>

LowerChars == <<"a", "b", "c", "d", "e", "f", "g", "h", "i", "j", "k", "l", "m",
                "n", "o", "p", "q", "r", "s", "t", "u", "v", "w", "x", "y", "z">>

\* The character classes of the three patterns: \d, [^/], [^\-], [^\.], [fwsm]
InClass(cls, c) ==
    CASE cls = "digit"     -> c \in DigitChars
      [] cls = "notslash"  -> c # "/"
      [] cls = "nothyphen" -> c # "-"
      [] cls = "notdot"    -> c # "."
      [] cls = "term"      -> c \in {"f", "w", "s", "m"}

\* the unescaped . of the dokku-link pattern: any character but a newline
ANY == "ANY"

PatCharMatches(pat, c) == IF pat = ANY THEN c # "\n" ELSE pat = c

\* the literal lit stands in s at position p
LitAt(s, p, lit) ==
    /\ p >= 1
    /\ p + Len(lit) - 1 <= Len(s)
    /\ \A i \in 1..Len(lit) : PatCharMatches(lit[i], s[p + i - 1])

\* the class InClass holds of the character of s at position p
ClassAt(s, p, cls) == p >= 1 /\ p <= Len(s) /\ InClass(cls, s[p])

\* a greedy X+ or X* at position p: the last position of the longest run of
\* characters of class cls that starts at p (p - 1 when the run is empty)
RunEnd(s, p, cls) ==
    IF p > Len(s) THEN p - 1
    ELSE CHOOSE e \in (p - 1)..Len(s) :
            /\ \A i \in p..e : InClass(cls, s[i])
            /\ e = Len(s) \/ ~InClass(cls, s[e + 1])

\* a decomposition that keeps the letter case of the URL
lower_keeps_case(s) == s

\* str.lower()
lower(s) ==
    [i \in 1..Len(s) |->
        IF \E k \in 1..26 : UpperChars[k] = s[i]
        THEN LowerChars[CHOOSE k \in 1..26 : UpperChars[k] = s[i]]
        ELSE s[i]]

IsSpace(c) == c \in {" ", "\t", "\n", "\r"}

\* str.strip()
strip(s) ==
    LET keep == {i \in 1..Len(s) : ~IsSpace(s[i])}
    IN  IF keep = {} THEN <<>>
        ELSE SubSeq(s, CHOOSE i \in keep : \A j \in keep : i <= j,
                       CHOOSE i \in keep : \A j \in keep : i >= j)

----------------------------------------------------------------------------
(* String literals of the source *)

HTTPS == <<"h", "t", "t", "p", "s", ":", "/", "/">>

GITHUB_URL == HTTPS \o <<"g", "i", "t", "h", "u", "b", ".", "c", "o", "m", "/">>

PULL == <<"/", "p", "u", "l", "l", "/">>

PROJ == <<"p", "r", "o", "j", "-">>

DOT_DOKKU == <<".", "d", "o", "k", "k", "u", "-">>

HOST_TAIL == <<ANY, "c", "s", ANY, "u", "c", "s", "b", ANY, "e", "d", "u">>

SENTINEL == <<"0", "0">>

API_URL == HTTPS \o <<"a", "p", "i", ".", "g", "i", "t", "h", "u", "b", ".", "c", "o", "m",
                      "/", "r", "e", "p", "o", "s", "/">>

PULLS == <<"/", "p", "u", "l", "l", "s", "/">>

HTTP_OK == 200

----------------------------------------------------------------------------
(* Python values *)

\* an optional string: a missing key, None, or a str
Missing == [k |-> "missing", v |-> <<>>]

Null == [k |-> "null", v |-> <<>>]

Str(s) == [k |-> "str", v |-> s]

\* the result of re.match / re.search when there is no match: None
NoComponents == [ok |-> FALSE, org |-> <<>>, repo |-> <<>>, pr_number |-> <<>>]

NoParts == [found |-> FALSE, projname |-> <<>>, qxx |-> <<>>, team_num |-> <<>>]

NoLink == [found |-> FALSE, appname |-> <<>>, dokku_num |-> <<>>]

----------------------------------------------------------------------------
(* separate_raw_pr_url: re.match of
     https://github\.com/(?P<org>[^/]+)/(?P<repo>[^/]+)/pull/(?P<pr_number>\d+)
   anchored at the start of the string only.  ok = FALSE is the ValueError
   of line 22. *)

separate_raw_pr_url(raw_pr_url) ==
    LET s  == raw_pr_url
        p1 == Len(GITHUB_URL) + 1
        e1 == RunEnd(s, p1, "notslash")
        p2 == e1 + 2
        e2 == RunEnd(s, p2, "notslash")
        p3 == e2 + Len(PULL) + 1
        e3 == RunEnd(s, p3, "digit")
        match == /\ LitAt(s, 1, GITHUB_URL)
                 /\ e1 >= p1
                 /\ LitAt(s, e1 + 1, <<"/">>)
                 /\ e2 >= p2
                 /\ LitAt(s, e2 + 1, PULL)
                 /\ e3 >= p3
    IN  IF ~match THEN NoComponents
        ELSE [ok        |-> TRUE,
              org       |-> lower(SubSeq(s, p1, e1)),
              repo      |-> lower(SubSeq(s, p2, e2)),
              pr_number |-> strip(SubSeq(s, p3, e3))]

----------------------------------------------------------------------------
(* get_parts_from_repo_name: re.search of
     proj-(?P<projname>[^\-]+)-(?P<qxx>[fwsm]\d\d)-(?P<team_num>\d\d)
   found = FALSE is the None of line 93. *)

\* the pattern matches at position p of repo_name
RepoPatternAt(repo_name, p) ==
    LET s  == repo_name
        p1 == p + Len(PROJ)
        e1 == RunEnd(s, p1, "nothyphen")
    IN  /\ LitAt(s, p, PROJ)
        /\ e1 >= p1
        /\ LitAt(s, e1 + 1, <<"-">>)
        /\ ClassAt(s, e1 + 2, "term")
        /\ ClassAt(s, e1 + 3, "digit")
        /\ ClassAt(s, e1 + 4, "digit")
        /\ LitAt(s, e1 + 5, <<"-">>)
        /\ ClassAt(s, e1 + 6, "digit")
        /\ ClassAt(s, e1 + 7, "digit")

get_parts_from_repo_name(repo_name) ==
    LET s      == repo_name
        starts == {p \in 1..Len(s) : RepoPatternAt(s, p)}
    IN  IF starts = {} THEN NoParts
        ELSE LET p  == CHOOSE q \in starts : \A r \in starts : q <= r
                 p1 == p + Len(PROJ)
                 e1 == RunEnd(s, p1, "nothyphen")
             IN  [found    |-> TRUE,
                  projname |-> SubSeq(s, p1, e1),
                  qxx      |-> SubSeq(s, e1 + 2, e1 + 4),
                  team_num |-> SubSeq(s, e1 + 6, e1 + 7)]

----------------------------------------------------------------------------
(* get_dokku_link_from_pr_data: re.search of
     https://(?P<appname>[^\.]+)\.dokku-(?P<dokku_num>\d\d).cs.ucsb.edu
   in pr_data.get('body', '').  found = FALSE is the None of line 76. *)

\* the pattern matches at position p of body
LinkPatternAt(body, p) ==
    LET s  == body
        p1 == p + Len(HTTPS)
        e1 == RunEnd(s, p1, "notdot")
    IN  /\ LitAt(s, p, HTTPS)
        /\ e1 >= p1
        /\ LitAt(s, e1 + 1, DOT_DOKKU)
        /\ ClassAt(s, e1 + Len(DOT_DOKKU) + 1, "digit")
        /\ ClassAt(s, e1 + Len(DOT_DOKKU) + 2, "digit")
        /\ LitAt(s, e1 + Len(DOT_DOKKU) + 3, HOST_TAIL)

\* re.search(pattern, body) for a str body
search_dokku_link(body) ==
    LET s      == body
        starts == {p \in 1..Len(s) : LinkPatternAt(s, p)}
    IN  IF starts = {} THEN NoLink
        ELSE LET p  == CHOOSE q \in starts : \A r \in starts : q <= r
                 p1 == p + Len(HTTPS)
                 e1 == RunEnd(s, p1, "notdot")
             IN  [found     |-> TRUE,
                  appname   |-> SubSeq(s, p1, e1),
                  dokku_num |-> SubSeq(s, e1 + Len(DOT_DOKKU) + 1,
                                          e1 + Len(DOT_DOKKU) + 2)]

\* pr_data.get('body', ''): the default stands in only for a missing key
body_of(pr_data) == IF pr_data.body.k = "missing" THEN Str(<<>>) ELSE pr_data.body

\* re.search raises TypeError (line 74) when the body is None
get_dokku_link_raises(pr_data) == body_of(pr_data).k = "null"

get_dokku_link_from_pr_data(pr_data) ==
    IF get_dokku_link_raises(pr_data) THEN NoLink
    ELSE search_dokku_link(body_of(pr_data).v)

----------------------------------------------------------------------------
(* The inputs: raw URLs composed of a lead, a host, an organization, a
   repository, a path kind, a number and a tail; and the answers of the API. *)

Leads == {<<>>, <<" ">>}

Hosts == {GITHUB_URL,
          HTTPS \o <<"g", "i", "t", "l", "a", "b", ".", "c", "o", "m", "/">>,
          HTTPS \o <<"g", "i", "t", "h", "u", "b", "x", "c", "o", "m", "/">>,
          <<"h", "t", "t", "p", ":", "/", "/", "g", "i", "t", "h", "u", "b", ".", "c", "o", "m", "/">>}

Orgs == {<<"C", "s">>, <<"c", "s">>}

Repos == {<<"p", "r", "o", "j", "-", "a", "-", "s", "2", "5", "-", "1", "0">>,
          <<"P", "r", "o", "j", "-", "A", "-", "S", "2", "5", "-", "1", "0">>,
          <<"p", "r", "o", "j", "-", "a", "-", "s", "2", "5", "-", "0", "5">>,
          <<"m", "i", "s", "c">>,
          <<>>}

Kinds == {PULL, <<"/", "i", "s", "s", "u", "e", "s", "/">>}

Numbers == UNION {[1..n -> {"7"}] : n \in 0..MaxDigits}

Tails == {<<>>, <<"/", "f", "i", "l", "e", "s">>}

RawUrls ==
    {l \o h \o o \o <<"/">> \o r \o k \o n \o t :
        l \in Leads, h \in Hosts, o \in Orgs, r \in Repos, k \in Kinds,
        n \in Numbers, t \in Tails}

Ops == {"full", "reduced"}

\* a deployment link as a PR description writes it; sep is the character
\* between the slot number and cs.ucsb.edu
Link(app, slot, sep) ==
    HTTPS \o app \o <<".", "d", "o", "k", "k", "u", "-">> \o slot \o <<sep>>
          \o <<"c", "s", ".", "u", "c", "s", "b", ".", "e", "d", "u">>

FirstLinks ==
    {Link(<<"a", "p", "p">>, slot, ".") :
        slot \in {<<"0", "0">>, <<"1", "0">>, <<"0", "5">>, <<"5">>}}
    \cup {Link(<<"a", "p", "p">>, <<"1", "0">>, "x"), <<>>}

SecondLinks == {<<>>, <<" ">> \o Link(<<"b">>, <<"0", "5">>, ".")}

BodyTexts ==
    {pre \o l1 \o l2 :
        pre \in {<<>>, <<"s", "e", "e", " ">>}, l1 \in FirstLinks, l2 \in SecondLinks}

Bodies == {Missing, Null} \cup {Str(b) : b \in BodyTexts}

Heads == {[k |-> "missing", ref |-> Missing],
          [k |-> "null", ref |-> Missing],
          [k |-> "dict", ref |-> Missing],
          [k |-> "dict", ref |-> Null],
          [k |-> "dict", ref |-> Str(<<"m", "a", "i", "n">>)]}

\* the PR records the API may return
PrRecords == [body : Bodies, head : Heads]

NoData == [body |-> Missing, head |-> [k |-> "missing", ref |-> Missing]]

NoResponse == [status |-> 0, text |-> <<>>, json |-> NoData]

Responses ==
    {[status |-> HTTP_OK, text |-> <<>>, json |-> d] : d \in PrRecords}
    \cup {[status |-> st, text |-> tx, json |-> NoData] :
            st \in {404, 500}, tx \in {<<>>, <<"N", "o">>}}

GITHUB_TOKEN == <<"t", "o", "k">>

----------------------------------------------------------------------------
(* Exceptions and results *)

NoError == [exc |-> "none", line |-> 0, status |-> 0, text |-> <<>>, url |-> <<>>,
            dokku_num |-> <<>>, team_num |-> <<>>, repo |-> <<>>]

\* line 22: ValueError(f"Invalid GitHub pull request URL format: <{raw_pr_url}>")
InvalidUrlError(raw) == [NoError EXCEPT !.exc = "ValueError", !.line = 22, !.url = raw]

\* line 56: ValueError(f"Failed to fetch pull request: {status_code} {text}")
FetchError(r) ==
    [NoError EXCEPT !.exc = "ValueError", !.line = 56, !.status = r.status, !.text = r.text]

\* line 74: re.search(pattern, None) raises TypeError
BodyTypeError == [NoError EXCEPT !.exc = "TypeError", !.line = 74]

\* line 113: subscripting None raises TypeError
SubscriptTypeError == [NoError EXCEPT !.exc = "TypeError", !.line = 113]

\* line 114: ValueError(f"Dokku number ... does not match team number ... in repo name ...")
MismatchError(dokku_num, team_num, repo) ==
    [NoError EXCEPT !.exc = "ValueError", !.line = 114, !.dokku_num = dokku_num,
                    !.team_num = team_num, !.repo = repo]

\* lines 119, 148: pr_data['head'] is None, and None['ref'] raises TypeError
HeadTypeError(line) == [NoError EXCEPT !.exc = "TypeError", !.line = line]

\* lines 121, 150: ValueError("Could not find branch name for PR with URL: " + raw_pr_url)
BranchError(line, raw) == [NoError EXCEPT !.exc = "ValueError", !.line = line, !.url = raw]

NoDescriptor == [form |-> "none", app |-> <<>>, dokku |-> <<>>, repo |-> <<>>,
                 branch |-> Missing, owner |-> <<>>, repo_name |-> <<>>, pr_url |-> <<>>]

\* lines 117, 146: f"https://github.com/{org}/{repo}"
repo_url(components) == GITHUB_URL \o components.org \o <<"/">> \o components.repo

\* lines 123-131: the dict handed to json.dumps
FullDescriptor(dokku_app, components, branch, raw) ==
    [form |-> "full", app |-> dokku_app.appname, dokku |-> dokku_app.dokku_num,
     repo |-> repo_url(components), branch |-> branch, owner |-> components.org,
     repo_name |-> components.repo, pr_url |-> raw]

\* lines 152-155: the dict handed to json.dumps
ReducedDescriptor(components, branch) ==
    [NoDescriptor EXCEPT !.form = "reduced", !.repo = repo_url(components),
                         !.branch = branch]

\* line 49: the API endpoint
api_url(components) ==
    API_URL \o components.org \o <<"/">> \o components.repo \o PULLS
            \o components.pr_number

\* lines 50-54: the GET request
Request(components, token) ==
    [url |-> api_url(components),
     authorization |-> <<"B", "e", "a", "r", "e", "r", " ">> \o token,
     accept |-> "application/vnd.github+json"]

\* a status check that lets client errors through
fetch_failed_server_only(status) == status >= 500

\* line 55
fetch_failed(status) == status # HTTP_OK

\* lines 119, 148: pr_data['head']['ref'] under try / except KeyError
head_ref(pr_data) ==
    IF pr_data.head.k = "missing" THEN [res |-> "KeyError", branch |-> Missing]
    ELSE IF pr_data.head.k = "null" THEN [res |-> "TypeError", branch |-> Missing]
    ELSE IF pr_data.head.ref.k = "missing" THEN [res |-> "KeyError", branch |-> Missing]
    ELSE [res |-> "ok", branch |-> pr_data.head.ref]

\* a check whose comparison is inverted: equal numbers conflict
check_dokku_num_inverted(dokku_app, repo_name_components) ==
    IF ~dokku_app.found THEN "TypeError"
    ELSE IF dokku_app.dokku_num = SENTINEL THEN "pass"
    ELSE IF ~repo_name_components.found THEN "TypeError"
    ELSE IF dokku_app.dokku_num = repo_name_components.team_num THEN "ValueError"
    ELSE "pass"

\* a check without the sentinel escape
check_dokku_num_no_sentinel(dokku_app, repo_name_components) ==
    IF ~dokku_app.found THEN "TypeError"
    ELSE IF ~repo_name_components.found THEN "TypeError"
    ELSE IF dokku_app.dokku_num # repo_name_components.team_num THEN "ValueError"
    ELSE "pass"

\* a check that is skipped when the repository name gave no parts
check_dokku_num_parts_optional(dokku_app, repo_name_components) ==
    IF ~dokku_app.found THEN "TypeError"
    ELSE IF dokku_app.dokku_num = SENTINEL THEN "pass"
    ELSE IF ~repo_name_components.found THEN "pass"
    ELSE IF dokku_app.dokku_num # repo_name_components.team_num THEN "ValueError"
    ELSE "pass"

\* line 113, evaluated left to right with a short-circuit and: "pass",
\* "ValueError" (line 114) or "TypeError" (a subscript of None)
check_dokku_num(dokku_app, repo_name_components) ==
    IF ~dokku_app.found THEN "TypeError"
    ELSE IF dokku_app.dokku_num = SENTINEL THEN "pass"
    ELSE IF ~repo_name_components.found THEN "TypeError"
    ELSE IF dokku_app.dokku_num # repo_name_components.team_num THEN "ValueError"
    ELSE "pass"

----------------------------------------------------------------------------
(* The state of one invocation *)

VARIABLES
    op,                      \* which of the two build functions was called
    raw_pr_url,              \* its argument
    pc,                      \* the statement the invocation stands before
    raw_pr_url_components,   \* local of both builds (lines 108, 144)
    repo_name_components,    \* local of the full build (line 109)
    requests,                \* the GET requests issued so far, in order
    response,                \* the answer to the GET (line 54)
    pr_data,                 \* local of both builds (lines 110, 145)
    dokku_app,               \* local of the full build (line 111)
    outcome,                 \* "running", "returned" or "raised"
    error,                   \* the exception that ended the invocation
    descriptor               \* the dict serialized and returned

vars == <<op, raw_pr_url, pc, raw_pr_url_components, repo_name_components, requests,
          response, pr_data, dokku_app, outcome, error, descriptor>>

locals == <<raw_pr_url_components, repo_name_components, pr_data, dokku_app>>

Init ==
    /\ op \in Ops
    /\ raw_pr_url \in RawUrls
    /\ pc = "separate"
    /\ raw_pr_url_components = NoComponents
    /\ repo_name_components = NoParts
    /\ requests = <<>>
    /\ response = NoResponse
    /\ pr_data = NoData
    /\ dokku_app = NoLink
    /\ outcome = "running"
    /\ error = NoError
    /\ descriptor = NoDescriptor

\* an exception leaves the function: nothing is returned
Raise(e) ==
    /\ outcome' = "raised"
    /\ error' = e
    /\ pc' = "done"
    /\ UNCHANGED descriptor

Return(d) ==
    /\ outcome' = "returned"
    /\ descriptor' = d
    /\ pc' = "done"
    /\ UNCHANGED error

Goto(next) ==
    /\ pc' = next
    /\ UNCHANGED <<outcome, error, descriptor>>

\* lines 108 and 144: raw_pr_url_components = separate_raw_pr_url(raw_pr_url)
Separate(next) ==
    LET components == separate_raw_pr_url(raw_pr_url)
    IN  /\ pc = "separate"
        /\ IF ~components.ok
           THEN /\ Raise(InvalidUrlError(raw_pr_url))
                /\ UNCHANGED raw_pr_url_components
           ELSE /\ raw_pr_url_components' = components
                /\ Goto(next)
        /\ UNCHANGED <<op, raw_pr_url, repo_name_components, requests, response,
                       pr_data, dokku_app>>

\* lines 47-58, called at lines 110 and 145: one GET, then the status check
get_pr_from_raw_pr_url(next) ==
    LET components == separate_raw_pr_url(raw_pr_url)
    IN  /\ pc = "fetch"
        /\ IF ~components.ok
           THEN /\ Raise(InvalidUrlError(raw_pr_url))
                /\ UNCHANGED <<requests, response, pr_data>>
           ELSE \E r \in Responses :
                    /\ requests' = Append(requests, Request(components, GITHUB_TOKEN))
                    /\ response' = r
                    /\ IF fetch_failed(r.status)
                       THEN /\ Raise(FetchError(r))
                            /\ UNCHANGED pr_data
                       ELSE /\ pr_data' = r.json
                            /\ Goto(next)
        /\ UNCHANGED <<op, raw_pr_url, raw_pr_url_components, repo_name_components,
                       dokku_app>>

\* line 108
Full_Separate == op = "full" /\ Separate("parts")

\* line 109: repo_name_components = get_parts_from_repo_name(components['repo'])
Full_Parts ==
    /\ op = "full"
    /\ pc = "parts"
    /\ repo_name_components' = get_parts_from_repo_name(raw_pr_url_components.repo)
    /\ Goto("fetch")
    /\ UNCHANGED <<op, raw_pr_url, raw_pr_url_components, requests, response, pr_data,
                   dokku_app>>

\* line 110
Full_Fetch == op = "full" /\ get_pr_from_raw_pr_url("link")

\* line 111: dokku_app = get_dokku_link_from_pr_data(pr_data)
Full_Link ==
    /\ op = "full"
    /\ pc = "link"
    /\ IF get_dokku_link_raises(pr_data)
       THEN /\ Raise(BodyTypeError)
            /\ UNCHANGED dokku_app
       ELSE /\ dokku_app' = get_dokku_link_from_pr_data(pr_data)
            /\ Goto("check")
    /\ UNCHANGED <<op, raw_pr_url, raw_pr_url_components, repo_name_components,
                   requests, response, pr_data>>

\* a full build that looks the branch up before the consistency check
Full_Check_branch_first ==
    /\ op = "full"
    /\ pc = "check"
    /\ LET verdict == check_dokku_num(dokku_app, repo_name_components)
       IN  IF head_ref(pr_data).res = "KeyError"
           THEN Raise(BranchError(121, raw_pr_url))
           ELSE CASE verdict = "TypeError"  -> Raise(SubscriptTypeError)
                  [] verdict = "ValueError" ->
                         Raise(MismatchError(dokku_app.dokku_num,
                                             repo_name_components.team_num,
                                             raw_pr_url_components.repo))
                  [] verdict = "pass"       -> Goto("branch")
    /\ UNCHANGED <<op, raw_pr_url, locals, requests, response>>

\* lines 113-114: the slot / team consistency check
Full_Check ==
    /\ op = "full"
    /\ pc = "check"
    /\ LET verdict == check_dokku_num(dokku_app, repo_name_components)
       IN  CASE verdict = "TypeError"  -> Raise(SubscriptTypeError)
             [] verdict = "ValueError" ->
                    Raise(MismatchError(dokku_app.dokku_num,
                                        repo_name_components.team_num,
                                        raw_pr_url_components.repo))
             [] verdict = "pass"       -> Goto("branch")
    /\ UNCHANGED <<op, raw_pr_url, locals, requests, response>>

\* lines 115-131: the branch lookup and the descriptor
Full_Return ==
    /\ op = "full"
    /\ pc = "branch"
    /\ LET b == head_ref(pr_data)
       IN  CASE b.res = "KeyError"  -> Raise(BranchError(121, raw_pr_url))
             [] b.res = "TypeError" -> Raise(HeadTypeError(119))
             [] b.res = "ok"        ->
                    Return(FullDescriptor(dokku_app, raw_pr_url_components, b.branch,
                                          raw_pr_url))
    /\ UNCHANGED <<op, raw_pr_url, locals, requests, response>>

\* line 144
Reduced_Separate == op = "reduced" /\ Separate("fetch")

\* line 145
Reduced_Fetch == op = "reduced" /\ get_pr_from_raw_pr_url("branch")

\* a reduced build that runs the link extraction and the consistency check
\* of the full build before it returns
Reduced_Return_checked ==
    /\ op = "reduced"
    /\ pc = "branch"
    /\ LET b == head_ref(pr_data)
           verdict == check_dokku_num(get_dokku_link_from_pr_data(pr_data),
                                      get_parts_from_repo_name(raw_pr_url_components.repo))
       IN  CASE verdict # "pass"    -> Raise(SubscriptTypeError)
             [] verdict = "pass" /\ b.res = "KeyError"  -> Raise(BranchError(150, raw_pr_url))
             [] verdict = "pass" /\ b.res = "TypeError" -> Raise(HeadTypeError(148))
             [] verdict = "pass" /\ b.res = "ok"        ->
                    Return(ReducedDescriptor(raw_pr_url_components, b.branch))
    /\ UNCHANGED <<op, raw_pr_url, locals, requests, response>>

\* lines 146-155: the branch lookup and the descriptor
Reduced_Return ==
    /\ op = "reduced"
    /\ pc = "branch"
    /\ LET b == head_ref(pr_data)
       IN  CASE b.res = "KeyError"  -> Raise(BranchError(150, raw_pr_url))
             [] b.res = "TypeError" -> Raise(HeadTypeError(148))
             [] b.res = "ok"        ->
                    Return(ReducedDescriptor(raw_pr_url_components, b.branch))
    /\ UNCHANGED <<op, raw_pr_url, locals, requests, response>>

Next ==
    \/ Full_Separate
    \/ Full_Parts
    \/ Full_Fetch
    \/ Full_Link
    \/ Full_Check
    \/ Full_Return
    \/ Reduced_Separate
    \/ Reduced_Fetch
    \/ Reduced_Return

Spec == Init /\ [][Next]_vars

----------------------------------------------------------------------------
(* What the properties speak of, stated on the inputs of the invocation *)

Finished == pc = "done"

Raised(line) == outcome = "raised" /\ error.line = line

\* the URL passed the shape test of line 20
Accepted == separate_raw_pr_url(raw_pr_url).ok

\* s is exactly https://github.com/<org>/<repo>/pull/<digits>: after the host
\* there are three slashes, around a non-empty organization, a non-empty
\* repository, the word pull, and a non-empty run of digits that ends s
ExactShape(s) ==
    LET p1      == Len(GITHUB_URL) + 1
        slashes == {i \in p1..Len(s) : s[i] = "/"}
    IN  /\ LitAt(s, 1, GITHUB_URL)
        /\ Cardinality(slashes) = 3
        /\ LET i1 == CHOOSE i \in slashes : \A j \in slashes : i <= j
               i3 == CHOOSE i \in slashes : \A j \in slashes : i >= j
               i2 == CHOOSE i \in slashes : i # i1 /\ i # i3
           IN  /\ i1 > p1
               /\ i2 > i1 + 1
               /\ SubSeq(s, i2, i3) = PULL
               /\ i3 < Len(s)
               /\ \A i \in (i3 + 1)..Len(s) : s[i] \in DigitChars

\* the organization and the repository segment of an accepted URL, as written
OrgSegment ==
    LET p1 == Len(GITHUB_URL) + 1
    IN  SubSeq(raw_pr_url, p1,
               (CHOOSE i \in p1..Len(raw_pr_url) : raw_pr_url[i] = "/"
                    /\ \A j \in p1..(i - 1) : raw_pr_url[j] # "/") - 1)

RepoSegment ==
    LET p2 == Len(GITHUB_URL) + Len(OrgSegment) + 2
    IN  SubSeq(raw_pr_url, p2,
               (CHOOSE i \in p2..Len(raw_pr_url) : raw_pr_url[i] = "/"
                    /\ \A j \in p2..(i - 1) : raw_pr_url[j] # "/") - 1)

\* t is s with every upper-case letter replaced by its lower-case letter
IsLowercased(t, s) ==
    /\ Len(t) = Len(s)
    /\ \A i \in 1..Len(s) :
          /\ \A k \in 1..26 : t[i] # UpperChars[k]
          /\ \/ t[i] = s[i]
             \/ \E k \in 1..26 : s[i] = UpperChars[k] /\ t[i] = LowerChars[k]

\* the fetch answered 200 with a PR record
Fetched == Len(requests) = 1 /\ response.status = 200

\* the parts of the repository name of the URL
TeamParts == get_parts_from_repo_name(separate_raw_pr_url(raw_pr_url).repo)

\* the first deployment link of the fetched PR body
BodyLink == get_dokku_link_from_pr_data(response.json)

\* the fetched PR record lacks head.ref: no head, a null head, a head without ref
LacksHeadRef ==
    \/ response.json.head.k \in {"missing", "null"}
    \/ response.json.head.k = "dict" /\ response.json.head.ref.k = "missing"

\* slot and team number conflict: the slot is not the sentinel and there is
\* no equal team number
SlotTeamConflict ==
    /\ BodyLink.found
    /\ BodyLink.dokku_num # <<"0", "0">>
    /\ ~TeamParts.found \/ TeamParts.team_num # BodyLink.dokku_num

----------------------------------------------------------------------------
(* C1: in the full build, a deployment link whose slot number is not "00"
   and differs from the team number of the repository name ends the
   invocation with the mismatch error of line 114, naming slot, team number
   and repository, and nothing is returned; so every full descriptor that is
   returned has dokku = "00" or dokku = the team number of the repository
   name. *)
C1_MismatchRaises ==
    /\ (/\ op = "full" /\ Finished /\ Accepted /\ Fetched
        /\ BodyLink.found
        /\ BodyLink.dokku_num # <<"0", "0">>
        /\ TeamParts.found
        /\ TeamParts.team_num # BodyLink.dokku_num)
       => /\ Raised(114)
          /\ error.exc = "ValueError"
          /\ error.dokku_num = BodyLink.dokku_num
          /\ error.team_num = TeamParts.team_num
          /\ error.repo = separate_raw_pr_url(raw_pr_url).repo
          /\ descriptor = NoDescriptor
    /\ (op = "full" /\ outcome = "returned")
       => \/ descriptor.dokku = <<"0", "0">>
          \/ TeamParts.found /\ descriptor.dokku = TeamParts.team_num

C1_Witness ==
    /\ op = "full" /\ Finished /\ ExactShape(raw_pr_url) /\ Fetched
    /\ BodyLink.dokku_num = <<"0", "5">>
    /\ TeamParts.team_num = <<"1", "0">>
    /\ Raised(114)

(* C2: sentinel bypass: in the full build, when the URL is accepted, the
   fetch answers 200, the record has head.ref and the extracted slot number
   is "00", no error is raised whatever the team number, and the full
   descriptor is returned with dokku = "00". *)
C2_SentinelBypass ==
    (/\ op = "full" /\ Finished /\ Accepted /\ Fetched
     /\ ~LacksHeadRef
     /\ BodyLink.found
     /\ BodyLink.dokku_num = <<"0", "0">>)
    => /\ outcome = "returned"
       /\ error = NoError
       /\ descriptor.form = "full"
       /\ descriptor.dokku = <<"0", "0">>

C2_Witness ==
    /\ op = "full" /\ Finished /\ ExactShape(raw_pr_url) /\ Fetched
    /\ BodyLink.dokku_num = <<"0", "0">>
    /\ TeamParts.team_num = <<"1", "0">>
    /\ outcome = "returned"
    /\ descriptor.dokku = <<"0", "0">>

(* C3, as claimed: in the full build, a URL whose repository segment does not
   match the naming convention always ends in an error, whatever the slot
   number of the deployment link. *)
C3_Original ==
    (op = "full" /\ Finished /\ Accepted /\ ~TeamParts.found)
    => outcome = "raised" /\ descriptor = NoDescriptor

(* C3, amended: in the full build, for a URL whose repository segment does
   not match the naming convention, a deployment link whose slot number is
   not "00" ends the invocation in an error with no descriptor; a descriptor
   is returned exactly when the fetch answers 200, the link's slot number is
   "00" (the check is short-circuited and the team number never read) and
   head.ref is there. *)
C3_PartsRequiredUnlessSentinel ==
    (op = "full" /\ Finished /\ Accepted /\ ~TeamParts.found)
    => /\ (Fetched /\ BodyLink.found /\ BodyLink.dokku_num # <<"0", "0">>)
          => Raised(113) /\ error.exc = "TypeError" /\ descriptor = NoDescriptor
       /\ outcome = "returned"
          <=> /\ Fetched
              /\ BodyLink.found
              /\ BodyLink.dokku_num = <<"0", "0">>
              /\ ~LacksHeadRef
       /\ outcome = "raised" => descriptor = NoDescriptor

C3_Witness ==
    /\ op = "full" /\ Finished /\ ExactShape(raw_pr_url) /\ Fetched
    /\ ~TeamParts.found
    /\ BodyLink.dokku_num = <<"1", "0">>
    /\ ~LacksHeadRef
    /\ Raised(113)

(* C4, as claimed: in the full build, when the URL is well-formed, the fetch
   answers 200 and the PR record holds no deployment link (no body, a null
   body, an empty body or a body without a link), the extractor does not
   raise, and the invocation ends with an error of its own for the missing
   link: an error that is raised as such, not the TypeError of a None
   operand, and that is none of the errors of the other stages. *)
C4_MissingLinkError ==
    (/\ op = "full" /\ Finished /\ ExactShape(raw_pr_url) /\ Fetched
     /\ ~BodyLink.found)
    => /\ outcome = "raised"
       /\ descriptor = NoDescriptor
       /\ error.exc = "ValueError"
       /\ error.line \notin {22, 56, 74, 114, 121}

(* C5, as claimed: in both builds, when every earlier step passes and the
   fetched record lacks head.ref (no head, a null head, or a head without
   ref), the invocation ends with the branch-not-found error naming the raw
   URL, and nothing is returned. *)
C5_BranchNotFound ==
    (/\ Finished /\ ExactShape(raw_pr_url) /\ Fetched
     /\ op = "full" => BodyLink.found /\ ~SlotTeamConflict
     /\ LacksHeadRef)
    => /\ outcome = "raised"
       /\ error.exc = "ValueError"
       /\ error.line = IF op = "full" THEN 121 ELSE 150
       /\ error.url = raw_pr_url
       /\ descriptor = NoDescriptor

(* C6: an invocation issues at most one request; when the answer's status is
   not 200 the invocation ends with the fetch error of line 56 carrying that
   status and the response text, with that one request and no descriptor. *)
C6_SingleShotFetch ==
    /\ Len(requests) <= 1
    /\ Len(requests) = 1 => response.status # 0
    /\ (Finished /\ Len(requests) = 1 /\ response.status # 200)
       => /\ Raised(56)
          /\ error.exc = "ValueError"
          /\ error.status = response.status
          /\ error.text = response.text
          /\ descriptor = NoDescriptor

C6_Witness ==
    /\ Finished
    /\ Len(requests) = 1
    /\ response.status = 404
    /\ response.text = <<"N", "o">>
    /\ Raised(56)

(* C7, as claimed: separate_raw_pr_url raises the malformed-URL error for
   every string that is not exactly https://github.com/<org>/<repo>/pull/<digits>
   and returns a reference only for strings of exactly that shape. *)
C7_RejectsAllButExactShape ==
    pc # "separate" => (Raised(22) <=> ~ExactShape(raw_pr_url))

(* C8: the reduced build reads neither the repository-name convention nor the
   PR body: when the URL is accepted, the fetch answers 200 and head.ref is
   there, it returns {repo, branch}, repo made of the lower-cased organization
   and repository of the URL and branch = head.ref, whatever the repository
   name and the body are. *)
C8_ReducedIgnoresLinkAndTeam ==
    (op = "reduced" /\ Finished /\ Accepted /\ Fetched /\ ~LacksHeadRef)
    => /\ outcome = "returned"
       /\ error = NoError
       /\ descriptor.form = "reduced"
       /\ LET p1 == Len(GITHUB_URL) + 1
              o  == SubSeq(descriptor.repo, p1, p1 + Len(OrgSegment) - 1)
              r  == SubSeq(descriptor.repo, p1 + Len(OrgSegment) + 1, Len(descriptor.repo))
          IN  /\ IsLowercased(o, OrgSegment)
              /\ IsLowercased(r, RepoSegment)
              /\ descriptor.repo = GITHUB_URL \o o \o <<"/">> \o r
       /\ descriptor.branch = response.json.head.ref
       /\ descriptor.app = <<>> /\ descriptor.dokku = <<>>

C8_Witness ==
    /\ op = "reduced" /\ Finished /\ ExactShape(raw_pr_url) /\ Fetched
    /\ ~TeamParts.found
    /\ ~BodyLink.found
    /\ outcome = "returned"
    /\ descriptor.form = "reduced"

(* C9: a full descriptor that is returned has owner and repo_name equal to
   the lower-cased organization and repository of the URL, repo =
   "https://github.com/" + owner + "/" + repo_name, pr_url = the raw URL,
   branch = head.ref of the record, and app and dokku = the application name
   and slot number of the first deployment link of the body. *)
C9_DescriptorComposition ==
    (op = "full" /\ outcome = "returned")
    => /\ descriptor.form = "full"
       /\ IsLowercased(descriptor.owner, OrgSegment)
       /\ IsLowercased(descriptor.repo_name, RepoSegment)
       /\ descriptor.repo = GITHUB_URL \o descriptor.owner \o <<"/">> \o descriptor.repo_name
       /\ descriptor.pr_url = raw_pr_url
       /\ descriptor.branch = response.json.head.ref
       /\ BodyLink.found
       /\ descriptor.app = BodyLink.appname
       /\ descriptor.dokku = BodyLink.dokku_num

C9_Witness ==
    /\ op = "full" /\ outcome = "returned"
    /\ descriptor.owner # OrgSegment
    /\ descriptor.repo_name # RepoSegment
    /\ descriptor.app = <<"a", "p", "p">>
    /\ \E i \in 1..Len(response.json.body.v) :
          i > 1 /\ LinkPatternAt(response.json.body.v, i)

(* C10: the full build fails at the earliest failing stage, in the order URL
   shape, fetch status, deployment-link presence, slot / team consistency,
   branch presence: a rejected URL fails before any request is issued, a
   non-200 answer is reported whatever the repository name, and a mismatch is
   reported even when head.ref is missing too. *)
C10_EarliestStageFails ==
    (op = "full" /\ Finished)
    => IF ~Accepted THEN Raised(22) /\ requests = <<>>
       ELSE IF ~Fetched THEN Raised(56) /\ Len(requests) = 1
       ELSE IF ~BodyLink.found THEN outcome = "raised" /\ error.line \in {74, 113}
       ELSE IF SlotTeamConflict
            THEN IF TeamParts.found THEN Raised(114) ELSE Raised(113)
       ELSE IF LacksHeadRef THEN outcome = "raised" /\ error.line \in {119, 121}
       ELSE outcome = "returned"

C10_Witness ==
    /\ op = "full" /\ Finished /\ Fetched
    /\ TeamParts.found
    /\ SlotTeamConflict
    /\ LacksHeadRef
    /\ Raised(114)

====
